---- MODULE Spec2Model ----
(***************************************************************************)
(* A model of the event package (src/event.go, the last definition of     *)
(* each type: lines 135-314): the subscribers Func, Ordered, Async and    *)
(* Limited, and the publishers Mapping and Buffer.                         *)
(*                                                                         *)
(* Synchronous code (Ordered, Mapping, Buffer.Publish) is evaluated by     *)
(* the recursive operator Handle over a store of subscriber values.        *)
(* Goroutines (Async, Limited) are modelled step by step.                  *)
(***************************************************************************)
EXTENDS Integers, Sequences, FiniteSets, TLC

\* ------------------------------------------------------------------ bounds

\* Mapping.On calls made before publishing starts.
MaxRegs == 3
\* Publish calls made on the Mapping.
MaxPub == 2
\* Members of the Async composite.
MaxMembers == 3
\* Handle calls made on the Async composite, one after the other.
MaxCalls == 2
\* The capacity of the Limited (NewLimited's max).
LimitedMax == 2
\* Goroutines calling Handle on the one Limited.
Callers == 3
\* Mapping.On calls made with Func subscribers.
MaxFuncRegs == 2
\* Mapping.On calls made with the empty Ordered.
MaxEmptyRegs == 2
\* Mapping.On calls made with user subscribers and an Ordered composite.
MaxFoldRegs == 4
\* Mapping.On calls made on a Mapping with a Mapping among its subscribers.
MaxNestRegs == 2
\* Where every caller is to be served: the capacity of the Limited and the
\* goroutines calling Handle on it.
FairMax == 1
FairCallers == 2
\* Rounds of Callers concurrent calls on the Limited.
MaxRounds == 1
\* Publish and Handle calls made on the Buffer by its owner.
MaxBufPub == 3
\* Dispatch calls made on the Buffer.
MaxDispatch == 2
\* Where the contexts handed over may be cancelled: Publish and Handle calls
\* made on the Buffer, and Dispatch calls.
MaxCtxBufPub == 2
MaxCtxDispatch == 1
\* Where handlers publish into the Buffer during the drain: Publish calls
\* made by the owner, Dispatch calls, and the forwardings followed when a
\* handler publishes on every one of them.
MaxDrainPub == 2
MaxDrains == 1
MaxForwarded == 4

\* ------------------------------------------------------------ vocabulary

\* The event types of the test suite (event_test.go, eventTypeCreated ...).
Types == {"Created", "Updated", "Deleted"}

\* User-defined subscribers: each records the events it is handed (the
\* tests' logged) and may return an error of its own (the tests' suberr).
Users == {"sub1", "sub2"}

\* The nil error.
Nil == "nil"

\* The error a user subscriber returns when it fails: one per subscriber,
\* so that a result names the member it came from.
ErrOf(id) == "error:" \o id

\* The absent map entry, and an unused cell of a slice's backing array.
None == [kind |-> "none"]

\* A user-defined Subscriber value.
User(id) == [kind |-> "user", id |-> id]

\* An Ordered value is a Go slice: a backing array, a length, and the
\* array's size as its capacity.
Slice(a, n) == [kind |-> "ordered", arr |-> a, len |-> n]

\* A context.Context handed to the package by its caller: Background is
\* never cancelled, Expired is a context whose deadline has passed (or
\* whose cancel function was called) before it is handed over.
Background == [ctx |-> "background", done |-> FALSE]
Expired == [ctx |-> "expired", done |-> TRUE]

\* The error of a cancelled context: ctx.Err().
CtxErr == "context deadline exceeded"

\* The context the k-th call of Async.Handle is given.
CtxOf(k) == [ctx |-> "call", call |-> k]

VARIABLES
    maps,       \* the Mapping: Type -> Subscriber (None: no entry)
    heap,       \* backing arrays of the Ordered slices, by array number
    phase,      \* "register" while On is called, then "publish"
    regs,       \* history: the On calls made on the Mapping, in order
    published,  \* history: the events handed to Publish, in order
    calls,      \* history: every invocation of a user subscriber, in order
    handed,     \* history: for every call of Mapping.Publish, the context
                \* it was given and the contexts the user subscribers got
    lastErr,    \* the value the last Publish returned
    lastFail,   \* the user subscribers that failed during the last Publish
    \* Async.Handle, call by call (k) and goroutine by goroutine (k, i)
    amembers,   \* the Async composite: its members, in order
    apc,        \* the caller of Async.Handle: "idle", or "wait" in wg.Wait
    ncalls,     \* Async.Handle calls started so far
    wg,         \* wg[k]: the WaitGroup counter of call k
    once,       \* once[k]: whether call k's sync.Once has run
    aerr,       \* aerr[k]: call k's variable err
    aret,       \* history: the values the Async.Handle calls returned
    gpc,        \* gpc[k][i]: where the goroutine of member i is
    ge,         \* ge[k][i]: the value member i's Handle returned (e)
    invoked,    \* history: invoked[k][i], the invocations of member i in
                \* call k
    gctx,       \* history: gctx[k][i], the context member i was handed in
                \* call k
    firstDo,    \* history: the goroutine whose once.Do was first, or 0
    \* Limited
    sem,        \* the permits held: the elements in the channel sem
    semcap,     \* the capacity of the channel sem: NewLimited's max
    ctxDone,    \* ctxDone[k]: call k's context is cancelled
    atCancel,   \* history: the goroutines running in the subscriber, blocked
                \* in the select and not yet in Handle when ctx fired
    \* Buffer
    events,     \* the Buffer's queue: pub.events
    bop,        \* the owner's last operation on the Buffer: "none",
                \* "publish", "dispatching" (in Dispatch's loop), "dispatched"
    derr,       \* Dispatch's variable err
    dctx,       \* Dispatch's parameter ctx
    dret,       \* the value the last Dispatch returned
    pret,       \* the value the last Buffer.Publish or Handle returned
    npub,       \* Publish and Handle calls made by the owner
    ndispatch,  \* Dispatch calls started
    enqueued,   \* history: every event appended to the queue, in order
    forwarded,  \* history: every event forwarded downstream, in order
    ferrs       \* history: ferrs[d] is what the forwardings of the d-th
                \* Dispatch returned, in order

mvars == <<maps, heap, phase, regs, published, calls, handed, lastErr,
           lastFail>>
avars == <<amembers, apc, ncalls, wg, once, aerr, aret, gpc, ge, invoked,
           gctx, firstDo>>
lvars == <<sem, semcap, ctxDone, atCancel>>
bvars == <<events, bop, derr, dctx, dret, pret, npub, ndispatch, enqueued,
           forwarded, ferrs>>
vars == <<mvars, avars, lvars, bvars>>

\* ------------------------------------------------------- sequence helpers

RECURSIVE Flatten(_)
Flatten(ss) == IF ss = <<>> THEN <<>> ELSE Head(ss) \o Flatten(Tail(ss))

Last(s) == s[Len(s)]

\* ---------------------------------------------------------- Go's append

\* The members of an Ordered value: the first len cells of its array.
Members(h, o) == SubSeq(h[o.arr], 1, o.len)

\* append(o, x): with spare capacity the element is written in place into
\* the shared backing array; otherwise a new array of twice the capacity
\* is allocated and the elements copied.
GoAppend(h, o, x) ==
    IF o.len < Len(h[o.arr])
    THEN [heap |-> [h EXCEPT ![o.arr][o.len + 1] = x],
          slice |-> Slice(o.arr, o.len + 1)]
    ELSE LET newcap == IF o.len = 0 THEN 1 ELSE 2 * o.len
             fresh == [i \in 1..newcap |->
                          IF i <= o.len THEN h[o.arr][i]
                          ELSE IF i = o.len + 1 THEN x ELSE None]
         IN [heap |-> Append(h, fresh),
             slice |-> Slice(Len(h) + 1, o.len + 1)]

\* ------------------------------------------------------------ subscribers

\* The state a synchronous call chain reads and writes: the invocation
\* history of the user subscribers and the Buffer's queue (with the history
\* of what was appended to it), and the contexts the user subscribers have
\* got during the call.  A result is that state and an error.
State ==
    [calls |-> calls, events |-> events, enqueued |-> enqueued, got |-> <<>>]
Result(st, err) == [st |-> st, err |-> err]

\* Buffer.Publish forwarding the event downstream at once: Buffer.Handle
\* written as pub.publisher.Handle(ctx, ev).
RECURSIVE Handle(_, _, _, _, _)
BufferPublishForwarding(ctx, ev, st) ==
    IF maps[ev.typ] # None
    THEN Handle(ctx, maps[ev.typ], ev, {}, st)
    ELSE Result(st, Nil)

\* Buffer.Publish (and Buffer.Handle, which calls it):
\* pub.events = append(pub.events, ev); return nil.
BufferPublish(ctx, ev, st) ==
    Result([st EXCEPT !.events = Append(@, ev),
                      !.enqueued = Append(@, ev)],
           Nil)

\* The event the tests' Func publishes into the Buffer it is dispatched
\* from: eventOther(3).
Derived == [typ |-> "Deleted", id |-> 0]

\* The tests' Func on the Buffer (TestBuffer): it fails, or it returns
\* pub.Publish(ctx, Derived).
Republisher == [kind |-> "republish", id |-> "func"]
RepublishHandle(ctx, sub, ev, F, st) ==
    LET st1 == [st EXCEPT !.calls = Append(@, [sub |-> sub.id, ev |-> ev]),
                          !.got = Append(@, ctx)]
    IN IF sub.id \in F
       THEN Result(st1, ErrOf(sub.id))
       ELSE BufferPublish(ctx, Derived, st1)

\* A user subscriber's Handle: record the event, fail if it is in F.
UserHandle(ctx, sub, ev, F, st) ==
    Result([st EXCEPT !.calls = Append(@, [sub |-> sub.id, ev |-> ev]),
                      !.got = Append(@, ctx)],
           IF sub.id \in F THEN ErrOf(sub.id) ELSE Nil)

\* A Func: a subscriber built from a function.  fn names the function, Nil
\* being the nil function.
Func(fn) == [kind |-> "func", fn |-> fn]

\* var Discard Func: the zero value of Func, the nil function.
Discard == Func(Nil)

\* A call of the function fn of the tests (TestFunc): it records the event,
\* and returns an error if it is in F.
Callable(ctx, fn, ev, F, st) ==
    Result([st EXCEPT !.calls = Append(@, [sub |-> fn, ev |-> ev]),
                      !.got = Append(@, ctx)],
           IF fn \in F THEN ErrOf(fn) ELSE Nil)

\* Func.Handle without the test for nil: calling a nil function panics.
FuncHandleUnchecked(ctx, sub, ev, F, st) ==
    IF sub.fn = Nil
    THEN Result(st, "panic: nil pointer dereference")
    ELSE Callable(ctx, sub.fn, ev, F, st)

\* Func.Handle: if sub == nil { return nil }; return sub(ctx, ev).
FuncHandle(ctx, sub, ev, F, st) ==
    IF sub.fn = Nil
    THEN Result(st, Nil)
    ELSE Callable(ctx, sub.fn, ev, F, st)

\* A Mapping as a Subscriber value: a reference to its map m.
MappingValue(m) == [kind |-> "mapping", m |-> m]

RECURSIVE PublishOn(_, _, _, _, _)

\* Mapping.Handle routing by some registered type instead of the event's.
MappingHandleAnyType(ctx, sub, ev, F, st) ==
    LET reg == {t \in Types : sub.m[t] # None}
    IN IF reg # {}
       THEN Handle(ctx, sub.m[CHOOSE t \in reg : t # ev.typ \/ reg = {t}],
                   ev, F, st)
       ELSE Result(st, Nil)

\* Mapping.Handle: return pub.Publish(ctx, ev).
MappingHandle(ctx, sub, ev, F, st) == PublishOn(ctx, sub.m, ev, F, st)

RECURSIVE OrderedLoop(_, _, _, _, _, _, _)
RECURSIVE OrderedLoopShortCircuit(_, _, _, _, _, _, _)
RECURSIVE OrderedLoopFirstWins(_, _, _, _, _, _, _)

\* The obsolete Ordered.Handle (src/event.go:36-43): return at the first
\* error.
OrderedLoopShortCircuit(ctx, members, i, ev, F, st, err) ==
    IF i > Len(members) THEN Result(st, Nil)
    ELSE LET r == Handle(ctx, members[i], ev, F, st)
         IN IF r.err # Nil THEN r
            ELSE OrderedLoopShortCircuit(ctx, members, i + 1, ev, F, r.st, err)

\* Ordered.Handle keeping the first error instead of the last.
OrderedLoopFirstWins(ctx, members, i, ev, F, st, err) ==
    IF i > Len(members) THEN Result(st, err)
    ELSE LET r == Handle(ctx, members[i], ev, F, st)
         IN OrderedLoopFirstWins(ctx, members, i + 1, ev, F, r.st,
                                 IF err = Nil THEN r.err ELSE err)

\* Ordered.Handle giving up once the context is cancelled:
\* if ctx.Err() != nil { return ctx.Err() } at the top of the loop's body.
RECURSIVE OrderedLoopCtxAware(_, _, _, _, _, _, _)
OrderedLoopCtxAware(ctx, members, i, ev, F, st, err) ==
    IF i > Len(members) THEN Result(st, err)
    ELSE IF ctx.done THEN Result(st, CtxErr)
    ELSE LET r == Handle(ctx, members[i], ev, F, st)
         IN OrderedLoopCtxAware(ctx, members, i + 1, ev, F, r.st,
                                IF r.err # Nil THEN r.err ELSE err)

\* Ordered.Handle's loop from member i on, err being the variable err.
OrderedLoop(ctx, members, i, ev, F, st, err) ==
    IF i > Len(members) THEN Result(st, err)
    ELSE LET r == Handle(ctx, members[i], ev, F, st)
         IN OrderedLoop(ctx, members, i + 1, ev, F, r.st,
                        IF r.err # Nil THEN r.err ELSE err)

\* Ordered.Handle.
OrderedHandle(ctx, sub, ev, F, st) ==
    OrderedLoop(ctx, Members(heap, sub), 1, ev, F, st, Nil)

\* Subscriber.Handle, dispatched on the dynamic type.
Handle(ctx, sub, ev, F, st) ==
    CASE sub.kind = "user" -> UserHandle(ctx, sub, ev, F, st)
      [] sub.kind = "ordered" -> OrderedHandle(ctx, sub, ev, F, st)
      [] sub.kind = "republish" -> RepublishHandle(ctx, sub, ev, F, st)
      [] sub.kind = "func" -> FuncHandle(ctx, sub, ev, F, st)
      [] sub.kind = "mapping" -> MappingHandle(ctx, sub, ev, F, st)

\* ---------------------------------------------------------------- Mapping

\* NewMapping.
NewMapping == [t \in Types |-> None]

\* Mapping.On, on the pair of the map and the heap.
On(m, h, typ, sub) ==
    LET s == m[typ] IN
    IF s # None
    THEN IF s.kind = "ordered"
         THEN LET ap == GoAppend(h, s, sub)
              IN [maps |-> [m EXCEPT ![typ] = ap.slice], heap |-> ap.heap]
         ELSE [maps |-> [m EXCEPT ![typ] = Slice(Len(h) + 1, 2)],
               heap |-> Append(h, <<s, sub>>)]
    ELSE [maps |-> [m EXCEPT ![typ] = sub], heap |-> h]

\* Mapping.Publish routing by some registered type instead of the event's.
MappingPublishAnyType(ctx, ev, F, st) ==
    LET reg == {t \in Types : maps[t] # None}
    IN IF reg # {}
       THEN Handle(ctx, maps[CHOOSE t \in reg : t # ev.typ \/ reg = {t}], ev, F, st)
       ELSE Result(st, Nil)

\* Mapping.Publish without the test of ok: Handle is called on the nil
\* Subscriber an absent entry yields, which panics.
MappingPublishUnchecked(ctx, ev, F, st) ==
    IF maps[ev.typ] # None
    THEN Handle(ctx, maps[ev.typ], ev, F, st)
    ELSE Result(st, "panic: nil pointer dereference")

\* Mapping.Publish on the Mapping whose map is m.
PublishOn(ctx, m, ev, F, st) ==
    IF m[ev.typ] # None
    THEN Handle(ctx, m[ev.typ], ev, F, st)
    ELSE Result(st, Nil)

\* Mapping.Publish on the Mapping the program publishes to.
MappingPublish(ctx, ev, F, st) == PublishOn(ctx, maps, ev, F, st)

\* ------------------------------------------------- the Mapping's actions

\* No Async composite and no Limited are in use.
InitNoAsync ==
    /\ amembers = <<>>
    /\ apc = "idle"
    /\ ncalls = 0
    /\ wg = <<>>
    /\ once = <<>>
    /\ aerr = <<>>
    /\ aret = <<>>
    /\ gpc = <<>>
    /\ ge = <<>>
    /\ invoked = <<>>
    /\ gctx = <<>>
    /\ firstDo = <<>>
    /\ sem = 0
    /\ semcap = 0
    /\ ctxDone = <<>>
    /\ atCancel = <<>>

\* No Buffer is in use.
InitNoBuffer ==
    /\ events = <<>>
    /\ bop = "none"
    /\ derr = Nil
    /\ dctx = Background
    /\ dret = Nil
    /\ pret = Nil
    /\ npub = 0
    /\ ndispatch = 0
    /\ enqueued = <<>>
    /\ forwarded = <<>>
    /\ ferrs = <<>>

\* No Mapping is in use.
InitNoMapping ==
    /\ maps = NewMapping
    /\ heap = <<>>
    /\ phase = "publish"
    /\ regs = <<>>
    /\ published = <<>>
    /\ calls = <<>>
    /\ handed = <<>>
    /\ lastErr = Nil
    /\ lastFail = {}

InitMapping ==
    /\ maps = NewMapping
    /\ heap = <<>>
    /\ phase = "register"
    /\ regs = <<>>
    /\ published = <<>>
    /\ calls = <<>>
    /\ handed = <<>>
    /\ lastErr = Nil
    /\ lastFail = {}
    /\ InitNoAsync
    /\ InitNoBuffer

\* pub.On(typ, sub) with a user subscriber.
MappingOn ==
    /\ phase = "register"
    /\ Len(regs) < MaxRegs
    /\ \E typ \in Types, id \in Users :
          LET r == On(maps, heap, typ, User(id))
          IN /\ maps' = r.maps
             /\ heap' = r.heap
             /\ regs' = Append(regs, [typ |-> typ, sub |-> User(id)])
    /\ UNCHANGED <<phase, published, calls, handed, lastErr, lastFail, avars, lvars,
                   bvars>>

\* Registration is over (On is not goroutine safe: all subscribers are
\* registered before publishing starts).
StartPublishing ==
    /\ phase = "register"
    /\ phase' = "publish"
    /\ UNCHANGED <<maps, heap, regs, published, calls, handed, lastErr, lastFail,
                   avars, lvars, bvars>>

\* pub.Publish(ctx, ev) with one of the contexts ctxs; the user subscribers
\* in F fail on this event.
PublishCtx(ctxs) ==
    /\ phase = "publish"
    /\ Len(published) < MaxPub
    /\ \E ctx \in ctxs, typ \in Types, F \in SUBSET Users :
          LET ev == [typ |-> typ, id |-> Len(published) + 1]
              r == MappingPublish(ctx, ev, F, State)
          IN /\ published' = Append(published, ev)
             /\ calls' = r.st.calls
             /\ handed' = Append(handed, [ctx |-> ctx, got |-> r.st.got])
             /\ events' = r.st.events
             /\ enqueued' = r.st.enqueued
             /\ lastErr' = r.err
             /\ lastFail' = F
    /\ UNCHANGED <<maps, heap, phase, regs, avars, lvars, bop, derr, dctx, dret,
                   pret, npub, ndispatch, forwarded, ferrs>>

\* pub.Publish(context.Background(), ev)
Publish == PublishCtx({Background})

NextMapping == MappingOn \/ StartPublishing \/ Publish

SpecMapping == InitMapping /\ [][NextMapping]_vars

\* ------------------------------------------------- a Mapping of Funcs

\* pub.On(typ, sub) with one of the subscribers offered, max times in all.
OnCall(max, offered) ==
    /\ phase = "register"
    /\ Len(regs) < max
    /\ \E typ \in Types, sub \in offered :
          LET r == On(maps, heap, typ, sub)
          IN /\ maps' = r.maps
             /\ heap' = r.heap
             /\ regs' = Append(regs, [typ |-> typ, sub |-> sub])
    /\ UNCHANGED <<phase, published, calls, handed, lastErr, lastFail, avars, lvars,
                   bvars>>

\* The Funcs registered: Discard (which is Func(nil)) and a Func around
\* each of the tests' functions (TestDiscard, TestFuncEmpty, TestFunc).
Funcs == {Discard} \cup {Func(fn) : fn \in Users}

\* pub.On(typ, sub) with a Func.
FuncOn == OnCall(MaxFuncRegs, Funcs)

NextFunc == FuncOn \/ StartPublishing \/ Publish

SpecFunc == InitMapping /\ [][NextFunc]_vars

\* ------------------------------------- a Mapping of Ordered composites

\* An Ordered value of the caller's with room to grow, as append or make
\* leave it: o := make(event.Ordered, 1, 2); o[0] = sub1.  It is the slice
\* of length 1 on the array 1 of the heap, of size 2.
SpareOrdered == Slice(1, 1)
SpareArray == <<User("sub1"), None>>

InitFolding ==
    /\ maps = NewMapping
    /\ heap = <<SpareArray>>
    /\ phase = "register"
    /\ regs = <<>>
    /\ published = <<>>
    /\ calls = <<>>
    /\ handed = <<>>
    /\ lastErr = Nil
    /\ lastFail = {}
    /\ InitNoAsync
    /\ InitNoBuffer

\* pub.On(typ, sub) with a user subscriber or with the caller's Ordered.
FoldOn == OnCall(MaxFoldRegs, {User(id) : id \in Users} \cup {SpareOrdered})

NextFolding == FoldOn \/ StartPublishing \/ Publish

SpecFolding == InitFolding /\ [][NextFolding]_vars

\* ------------------------------------------------------------------ Async

\* The Limited value: a pointer to the one Limited, made by NewLimited
\* around LimitedSubscriber with LimitedMax permits.
Limited == [kind |-> "limited"]
LimitedSubscriber == "sub1"

Calls == 1..MaxCalls

\* The record of a context that has not been cancelled.
NotCancelled ==
    [fired |-> FALSE, running |-> {}, blocked |-> {}, spawned |-> {}]
Gs == 1..Len(amembers)

\* The user subscriber goroutine i ends up invoking.
UserOf(i) ==
    IF amembers[i].kind = "limited" THEN LimitedSubscriber ELSE amembers[i].id

\* The goroutines of call k that are at one of the places pcs.
At(k, pcs) == {i \in Gs : gpc[k][i] \in pcs}

\* All goroutines, of every call, at one of the places pcs.
AllAt(pcs) == {g \in Calls \X Gs : gpc[g[1]][g[2]] \in pcs}

\* The state of the locals of the Handle calls before any call.
InitCalls ==
    /\ apc = "idle"
    /\ ncalls = 0
    /\ wg = [k \in Calls |-> 0]
    /\ once = [k \in Calls |-> FALSE]
    /\ aerr = [k \in Calls |-> Nil]
    /\ aret = <<>>
    /\ gpc = [k \in Calls |-> [i \in Gs |-> "none"]]
    /\ ge = [k \in Calls |-> [i \in Gs |-> Nil]]
    /\ invoked = [k \in Calls |-> [i \in Gs |-> 0]]
    /\ gctx = [k \in Calls |-> [i \in Gs |-> None]]
    /\ firstDo = [k \in Calls |-> 0]
    /\ sem = 0
    /\ ctxDone = [k \in Calls |-> FALSE]
    /\ atCancel = [k \in Calls |-> NotCancelled]

\* wg.Add counting one goroutine too many.
WgAddOneMore(counter, n) == counter + n + 1

\* wg.Add(len(sub)) on the counter of a WaitGroup.
WgAdd(counter, n) == counter + n

\* wg.Wait returning one Done too early.
WgWaitOffByOne(k) == wg[k] <= 1

\* wg.Wait() returns when the counter is zero.
WgWait(k) == wg[k] = 0

\* err = e without the sync.Once: every failure overwrites.
OnceDoOverwrite(done, old, e) == e

\* once.Do(func() { err = e }): the value of err afterwards.
OnceDo(done, old, e) == IF done THEN old ELSE e

\* A call whose goroutines have all exited: its locals (wg, once, err, the
\* goroutines' e, its context) are no longer reachable, and what is recorded
\* about it is dropped with them.
Over(k) == k <= ncalls /\ At(k, {"exit"}) = Gs

\* Async.Handle up to wg.Wait: fresh locals, wg.Add(len(sub)) and one go
\* statement per member.  The locals of the calls that are over are dropped.
\* The context given is cancelled already or not, as dones allows.
AsyncHandleCtx(max, dones) ==
    /\ apc = "idle"
    /\ ncalls < max
    /\ LET k == ncalls + 1
       IN /\ ncalls' = k
          /\ wg' = [wg EXCEPT ![k] = WgAdd(@, Len(amembers))]
          /\ gpc' = [gpc EXCEPT ![k] = [i \in Gs |-> "spawned"]]
    /\ apc' = "wait"
    /\ once' = [k \in Calls |-> IF Over(k) THEN FALSE ELSE once[k]]
    /\ aerr' = [k \in Calls |-> IF Over(k) THEN Nil ELSE aerr[k]]
    /\ ge' = [k \in Calls |-> IF Over(k) THEN [i \in Gs |-> Nil] ELSE ge[k]]
    /\ firstDo' = [k \in Calls |-> IF Over(k) THEN 0 ELSE firstDo[k]]
    /\ invoked' = [k \in Calls |->
                      IF Over(k) THEN [i \in Gs |-> 0] ELSE invoked[k]]
    /\ gctx' = [k \in Calls |->
                   IF Over(k) THEN [i \in Gs |-> None] ELSE gctx[k]]
    /\ \E done \in dones :
          ctxDone' = [k \in Calls |->
                         IF k = ncalls + 1 THEN done
                         ELSE IF Over(k) THEN FALSE ELSE ctxDone[k]]
    /\ atCancel' = [k \in Calls |->
                       IF Over(k) THEN NotCancelled ELSE atCancel[k]]
    /\ UNCHANGED <<amembers, aret, sem, semcap, mvars, bvars>>

\* Async.Handle called, max times in all, with a context that is not
\* cancelled when the call is made.
AsyncHandleUpTo(max) == AsyncHandleCtx(max, {FALSE})

\* Async.Handle called on the composite, MaxCalls times in all.
AsyncHandle == AsyncHandleUpTo(MaxCalls)

\* The goroutine's function reading the loop variable when it runs, after
\* the loop has ended: go func() { ... sub.Handle(ctx, ev) ... }().
ParamLoopVariable(i) == Len(amembers)

\* go func(sub Subscriber) { ... }(sub): the goroutine started in the
\* iteration of member i is passed that member.
Param(i) == i

\* The goroutine of a user member calls sub.Handle(ctx, ev).
GoBegin(k, i) ==
    /\ gpc[k][i] = "spawned"
    /\ amembers[i].kind = "user"
    /\ gpc' = [gpc EXCEPT ![k][i] = "running"]
    /\ invoked' = [invoked EXCEPT ![k][Param(i)] = @ + 1]
    /\ gctx' = [gctx EXCEPT ![k][Param(i)] = CtxOf(k)]
    /\ UNCHANGED <<amembers, apc, ncalls, wg, once, aerr, aret, ge, firstDo,
                   mvars, lvars, bvars>>

\* The user subscriber returns, nil or its error.  Under a Limited the
\* deferred release comes next.
GoEnd(k, i) ==
    /\ gpc[k][i] = "running"
    /\ \E e \in {Nil, ErrOf(UserOf(Param(i)))} :
          ge' = [ge EXCEPT ![k][i] = e]
    /\ gpc' = [gpc EXCEPT ![k][i] =
                  IF amembers[i].kind = "limited" THEN "releasing"
                  ELSE "returned"]
    /\ UNCHANGED <<amembers, apc, ncalls, wg, once, aerr, aret, invoked, gctx,
                   firstDo, mvars, lvars, bvars>>

\* if e != nil { once.Do(func() { err = e }) }
GoOnce(k, i) ==
    /\ gpc[k][i] = "returned"
    /\ IF ge[k][i] # Nil
       THEN /\ aerr' = [aerr EXCEPT ![k] = OnceDo(once[k], @, ge[k][i])]
            /\ once' = [once EXCEPT ![k] = TRUE]
            /\ firstDo' = [firstDo EXCEPT ![k] = IF @ = 0 THEN i ELSE @]
       ELSE UNCHANGED <<aerr, once, firstDo>>
    /\ gpc' = [gpc EXCEPT ![k][i] = "deferred"]
    /\ UNCHANGED <<amembers, apc, ncalls, wg, aret, ge, invoked, gctx, mvars, lvars, bvars>>

\* defer wg.Done()
GoDone(k, i) ==
    /\ gpc[k][i] = "deferred"
    /\ wg' = [wg EXCEPT ![k] = @ - 1]
    /\ gpc' = [gpc EXCEPT ![k][i] = "exit"]
    /\ UNCHANGED <<amembers, apc, ncalls, once, aerr, aret, ge, invoked, gctx,
                   firstDo, mvars, lvars, bvars>>

\* wg.Wait() returns; return err.
AsyncReturn ==
    /\ apc = "wait"
    /\ WgWait(ncalls)
    /\ aret' = Append(aret, aerr[ncalls])
    /\ apc' = "idle"
    /\ UNCHANGED <<amembers, ncalls, wg, once, aerr, gpc, ge, invoked, gctx,
                   firstDo, mvars, lvars, bvars>>

\* The Async composites handled: Async{}, Async{sub1}, Async{sub1, sub2},
\* Async{sub1, sub2, sub1}, ...: different subscribers, and from three
\* members on a subscriber listed twice.
AsyncMember(i) == User(IF i % 2 = 1 THEN "sub1" ELSE "sub2")

InitAsync ==
    /\ \E n \in 0..MaxMembers : amembers = [i \in 1..n |-> AsyncMember(i)]
    /\ InitCalls
    /\ semcap = 0
    /\ InitNoMapping
    /\ InitNoBuffer

NextAsync ==
    \/ AsyncHandle
    \/ \E k \in Calls, i \in Gs : GoBegin(k, i)
    \/ \E k \in Calls, i \in Gs : GoEnd(k, i)
    \/ \E k \in Calls, i \in Gs : GoOnce(k, i)
    \/ \E k \in Calls, i \in Gs : GoDone(k, i)
    \/ AsyncReturn

SpecAsync == InitAsync /\ [][NextAsync]_vars

\* ------------------------------------------------------ empty composites

\* Ordered{}: a slice of length 0 on the array 1 of the heap, of size 0.
EmptyOrdered == Slice(1, 0)

\* A Mapping to register Ordered{} on (TestOrderedEmpty), and Async{}
\* (TestAsyncEmpty) to call Handle on.
InitEmpty ==
    /\ maps = NewMapping
    /\ heap = << <<>> >>
    /\ phase = "register"
    /\ regs = <<>>
    /\ published = <<>>
    /\ calls = <<>>
    /\ handed = <<>>
    /\ lastErr = Nil
    /\ lastFail = {}
    /\ amembers = <<>>
    /\ InitCalls
    /\ semcap = 0
    /\ InitNoBuffer

\* pub.On(typ, event.Ordered{})
EmptyOn == OnCall(MaxEmptyRegs, {EmptyOrdered})

\* Without members Async.Handle has no goroutine to start: the caller goes
\* from wg.Add(0) to wg.Wait().
NextEmpty ==
    \/ EmptyOn
    \/ StartPublishing
    \/ Publish
    \/ AsyncHandle
    \/ AsyncReturn

SpecEmpty == InitEmpty /\ [][NextEmpty]_vars

\* ---------------------------------------------------------------- Limited

\* The places where a goroutine holds a permit: between the send on sem
\* and the deferred receive.
Holding == {"acquired", "running", "releasing"}

\* A select without the case <-ctx.Done(): a blocked sender stays blocked.
WakeOnCancelNever(pc) == pc

\* close(ctx.Done()) wakes a goroutine blocked in the select, which takes
\* the case <-ctx.Done().
WakeOnCancel(pc) == IF pc = "blocked" THEN "cancelled" ELSE pc

\* The send case on a channel made without a capacity, make(chan struct{}):
\* with nobody receiving, the send never proceeds.
SemReadyUnbuffered == FALSE

\* The send case with a channel one element too large.
SemReadyOffByOne == sem <= semcap

\* case sub.sem <- struct{}{} can proceed: the channel is not full.
SemReady == sem < semcap

\* case <-ctx.Done() can proceed: the context is cancelled.
CtxReady(k) == ctxDone[k]

\* The permit given back only when the subscriber succeeded.
ReleasesOnSuccessOnly(e) == e = Nil

\* defer func() { <-sub.sem }(): runs whatever the subscriber returned.
Releases(e) == TRUE

\* Limited.Handle's select: one of the cases that can proceed is taken,
\* whichever it is; with none the goroutine blocks on both.
LimSelect(k, i) ==
    /\ gpc[k][i] = "spawned"
    /\ amembers[i].kind = "limited"
    /\ \/ /\ CtxReady(k)
          /\ gpc' = [gpc EXCEPT ![k][i] = "cancelled"]
          /\ sem' = sem
       \/ /\ SemReady
          /\ gpc' = [gpc EXCEPT ![k][i] = "acquired"]
          /\ sem' = sem + 1
       \/ /\ ~CtxReady(k)
          /\ ~SemReady
          /\ gpc' = [gpc EXCEPT ![k][i] = "blocked"]
          /\ sem' = sem
    /\ UNCHANGED <<amembers, apc, ncalls, wg, once, aerr, aret, ge, invoked, gctx,
                   firstDo, semcap, ctxDone, atCancel, mvars, bvars>>

\* return ctx.Err()
LimReturnCtx(k, i) ==
    /\ gpc[k][i] = "cancelled"
    /\ ge' = [ge EXCEPT ![k][i] = CtxErr]
    /\ gpc' = [gpc EXCEPT ![k][i] = "returned"]
    /\ UNCHANGED <<amembers, apc, ncalls, wg, once, aerr, aret, invoked, gctx,
                   firstDo, mvars, lvars, bvars>>

\* The permit is held: sub.subscriber.Handle(ctx, ev) is called.
LimInvoke(k, i) ==
    /\ gpc[k][i] = "acquired"
    /\ gpc' = [gpc EXCEPT ![k][i] = "running"]
    /\ invoked' = [invoked EXCEPT ![k][Param(i)] = @ + 1]
    /\ gctx' = [gctx EXCEPT ![k][Param(i)] = CtxOf(k)]
    /\ UNCHANGED <<amembers, apc, ncalls, wg, once, aerr, aret, ge, firstDo,
                   mvars, lvars, bvars>>

\* Limited.Handle dropping the subscriber's result:
\* sub.subscriber.Handle(ctx, ev); return nil.
LimReturnDropped(e) == Nil

\* return sub.subscriber.Handle(ctx, ev): Handle returns the value e the
\* wrapped subscriber returned.
LimReturn(e) == e

\* The deferred <-sub.sem, then the return of the subscriber's result.  A
\* receive from the full channel with senders blocked on it completes the
\* send of one of them in the same step.
LimRelease(k, i) ==
    /\ gpc[k][i] = "releasing"
    /\ IF Releases(ge[k][i])
       THEN IF AllAt({"blocked"}) = {}
            THEN /\ sem' = sem - 1
                 /\ gpc' = [gpc EXCEPT ![k][i] = "returned"]
            ELSE /\ sem' = sem
                 /\ \E w \in AllAt({"blocked"}) :
                       gpc' = [gpc EXCEPT ![k][i] = "returned",
                                          ![w[1]][w[2]] = "acquired"]
       ELSE /\ sem' = sem
            /\ gpc' = [gpc EXCEPT ![k][i] = "returned"]
    /\ ge' = [ge EXCEPT ![k][i] = LimReturn(@)]
    /\ UNCHANGED <<amembers, apc, ncalls, wg, once, aerr, aret, invoked, gctx,
                   firstDo, semcap, ctxDone, atCancel, mvars, bvars>>

\* The context of the call in progress is cancelled (its deadline passes).
Cancel ==
    /\ apc = "wait"
    /\ ~ctxDone[ncalls]
    /\ ctxDone' = [ctxDone EXCEPT ![ncalls] = TRUE]
    /\ atCancel' = [atCancel EXCEPT ![ncalls] =
                       [fired |-> TRUE,
                        running |-> At(ncalls, {"running"}),
                        blocked |-> At(ncalls, {"blocked"}),
                        spawned |-> At(ncalls, {"spawned"})]]
    /\ gpc' = [gpc EXCEPT ![ncalls] =
                  [i \in Gs |-> WakeOnCancel(gpc[ncalls][i])]]
    /\ UNCHANGED <<amembers, apc, ncalls, wg, once, aerr, aret, ge, invoked, gctx,
                   firstDo, sem, semcap, mvars, bvars>>

\* Async.Handle called on the composite of Limiteds, MaxRounds times.
LimitedCallers == AsyncHandleUpTo(MaxRounds)

\* Callers goroutines call Handle on the one Limited, as the members of an
\* Async{sub1, sub1, ...} with sub1 the Limited (TestLimited).
InitLimited ==
    /\ amembers = [i \in 1..Callers |-> Limited]
    /\ InitCalls
    /\ semcap = LimitedMax
    /\ InitNoMapping
    /\ InitNoBuffer

NextLimited ==
    \/ LimitedCallers
    \/ \E k \in Calls, i \in Gs : LimSelect(k, i)
    \/ \E k \in Calls, i \in Gs : LimReturnCtx(k, i)
    \/ \E k \in Calls, i \in Gs : LimInvoke(k, i)
    \/ \E k \in Calls, i \in Gs : GoEnd(k, i)
    \/ \E k \in Calls, i \in Gs : LimRelease(k, i)
    \/ Cancel
    \/ \E k \in Calls, i \in Gs : GoOnce(k, i)
    \/ \E k \in Calls, i \in Gs : GoDone(k, i)
    \/ AsyncReturn

SpecLimited == InitLimited /\ [][NextLimited]_vars

\* The steps of the goroutine of caller i in call k.
GoStep(k, i) ==
    \/ LimSelect(k, i)
    \/ LimReturnCtx(k, i)
    \/ LimInvoke(k, i)
    \/ GoEnd(k, i)
    \/ LimRelease(k, i)
    \/ GoOnce(k, i)
    \/ GoDone(k, i)

\* The steps of the goroutine of caller i, whichever call it belongs to
\* (the goroutines of a call have exited when the next call starts).
CallerStep(i) == \E k \in Calls : GoStep(k, i)

\* The scheduler runs every goroutine that can take a step, the wrapped
\* subscriber's Handle returns (GoEnd), and the caller of Async.Handle
\* goes on once wg.Wait() can return.  Nothing makes the program call
\* Handle, and nothing makes a context's deadline pass.
FairLimited ==
    /\ \A i \in 1..FairCallers : WF_vars(CallerStep(i))
    /\ WF_vars(AsyncReturn)

\* FairCallers goroutines call Handle on a Limited of capacity FairMax.
InitLimitedFair ==
    /\ amembers = [i \in 1..FairCallers |-> Limited]
    /\ InitCalls
    /\ semcap = FairMax
    /\ InitNoMapping
    /\ InitNoBuffer

SpecLimitedFair == InitLimitedFair /\ [][NextLimited]_vars /\ FairLimited

\* ----------------------------------------------------------------- Buffer

\* Buffer.Handle: return pub.Publish(ctx, ev).
BufferHandle(ctx, ev, st) == BufferPublish(ctx, ev, st)

\* Dispatch taking the event appended last.
PopLast(q) == [ev |-> q[Len(q)], rest |-> SubSeq(q, 1, Len(q) - 1)]

\* Dispatch reading the head event and leaving it in the queue:
\* ev = pub.events[0] without the reslice.
PopHeadKept(q) == [ev |-> Head(q), rest |-> q]

\* ev, pub.events = pub.events[0], pub.events[1:]
PopHead(q) == [ev |-> Head(q), rest |-> Tail(q)]

\* The subscribers that may fail when the Buffer forwards an event.
Failable == Users \cup {Republisher.id}

\* The downstream publisher of TestBuffer: a Mapping with, in this order,
\* Created -> sub1, Created -> sub2, Updated -> sub2, Deleted -> sub2 and
\* Updated -> the Func that publishes Derived into the Buffer.
BufferRegs ==
    << [typ |-> "Created", sub |-> User("sub1")],
       [typ |-> "Created", sub |-> User("sub2")],
       [typ |-> "Updated", sub |-> User("sub2")],
       [typ |-> "Deleted", sub |-> User("sub2")],
       [typ |-> "Updated", sub |-> Republisher] >>

\* NewMapping().On(...).On(...): the chained registrations rs.
RECURSIVE RegisterAll(_)
RegisterAll(rs) ==
    IF rs = <<>>
    THEN [maps |-> NewMapping, heap |-> <<>>]
    ELSE LET R == RegisterAll(SubSeq(rs, 1, Len(rs) - 1))
         IN On(R.maps, R.heap, Last(rs).typ, Last(rs).sub)

\* NewBuffer(pub) around the Mapping of BufferRegs.
InitBuffer ==
    /\ maps = RegisterAll(BufferRegs).maps
    /\ heap = RegisterAll(BufferRegs).heap
    /\ phase = "publish"
    /\ regs = BufferRegs
    /\ published = <<>>
    /\ calls = <<>>
    /\ handed = <<>>
    /\ lastErr = Nil
    /\ lastFail = {}
    /\ InitNoAsync
    /\ InitNoBuffer

\* The owner's call of Buffer.Publish or Buffer.Handle returns r, the queue
\* and the error it leaves.
BufferCall(r) ==
    /\ bop # "dispatching"
    /\ npub < MaxBufPub
    /\ events' = r.st.events
    /\ enqueued' = r.st.enqueued
    /\ calls' = r.st.calls
    /\ pret' = r.err
    /\ npub' = npub + 1
    /\ bop' = "publish"
    /\ UNCHANGED <<maps, heap, phase, regs, published, handed, lastErr,
                   lastFail, derr, dctx, dret, ndispatch, forwarded, ferrs,
                   avars, lvars>>

\* pub.Publish(ctx, ev) with a new event.
BufPublish ==
    \E typ \in Types :
        BufferCall(BufferPublish(Background,
                                 [typ |-> typ, id |-> npub + 1], State))

\* pub.Handle(ctx, ev) with a new event.
BufHandle ==
    \E typ \in Types :
        BufferCall(BufferHandle(Background,
                                [typ |-> typ, id |-> npub + 1], State))

\* The variable err kept from the call before: err as a field of the Buffer.
DeclareErrStale(old) == old

\* var err error: Dispatch's err starts as nil, whatever a call before left.
DeclareErr(old) == Nil

\* A loop that gives up at the first failure.
DrainingUntilFailure(q, err) == Len(q) # 0 /\ err = Nil

\* for len(pub.events) != 0
Draining(q, err) == Len(q) # 0

\* if e := ...; e != nil { err = e }: the value of err afterwards.
Overwrite(err, e) == IF e # Nil THEN e ELSE err

\* pub.Dispatch(ctx) is called with one of the contexts ctxs: var err error.
DispatchCtx(ctxs) ==
    /\ bop # "dispatching"
    /\ ndispatch < MaxDispatch
    /\ ndispatch' = ndispatch + 1
    /\ \E ctx \in ctxs : dctx' = ctx
    /\ derr' = DeclareErr(derr)
    /\ bop' = "dispatching"
    /\ ferrs' = Append(ferrs, <<>>)
    /\ UNCHANGED <<mvars, avars, lvars, events, dret, pret, npub, enqueued,
                   forwarded>>

\* pub.Dispatch(context.Background())
Dispatch == DispatchCtx({Background})

\* One iteration of Dispatch's loop: the head event is removed and
\* published downstream, where the subscribers in F fail; a failure
\* overwrites err.
DispatchStep ==
    /\ bop = "dispatching"
    /\ Draining(events, derr)
    /\ \E F \in SUBSET Failable :
          LET p == PopHead(events)
              r == MappingPublish(dctx, p.ev, F,
                                  [State EXCEPT !.events = p.rest])
          IN /\ events' = r.st.events
             /\ enqueued' = r.st.enqueued
             /\ calls' = r.st.calls
             /\ handed' = Append(handed, [ctx |-> dctx, got |-> r.st.got])
             /\ derr' = Overwrite(derr, r.err)
             /\ forwarded' = Append(forwarded, p.ev)
             /\ ferrs' = [ferrs EXCEPT ![ndispatch] = Append(@, r.err)]
    /\ UNCHANGED <<maps, heap, phase, regs, published, lastErr, lastFail,
                   bop, dctx, dret, pret, npub, ndispatch, avars, lvars>>

\* The loop is left: return err.
DispatchReturn ==
    /\ bop = "dispatching"
    /\ ~Draining(events, derr)
    /\ dret' = derr
    /\ bop' = "dispatched"
    /\ UNCHANGED <<mvars, avars, lvars, events, derr, dctx, pret, npub, ndispatch,
                   enqueued, forwarded, ferrs>>

NextBuffer ==
    \/ BufPublish
    \/ BufHandle
    \/ Dispatch
    \/ DispatchStep
    \/ DispatchReturn

SpecBuffer == InitBuffer /\ [][NextBuffer]_vars

\* ---------------------------------------- handlers that publish back

\* A downstream Mapping whose Func publishes an event of the Type it is
\* registered under into the Buffer: every forwarding of a Deleted event
\* that does not fail appends another one.
LoopRegs ==
    << [typ |-> "Created", sub |-> User("sub1")],
       [typ |-> "Deleted", sub |-> Republisher] >>

\* NewBuffer(pub) around the Mapping of TestBuffer or around the one whose
\* Func publishes its own Type.
InitDrain ==
    /\ \E rs \in {BufferRegs, LoopRegs} :
          /\ maps = RegisterAll(rs).maps
          /\ heap = RegisterAll(rs).heap
          /\ regs = rs
    /\ phase = "publish"
    /\ published = <<>>
    /\ calls = <<>>
    /\ handed = <<>>
    /\ lastErr = Nil
    /\ lastFail = {}
    /\ InitNoAsync
    /\ InitNoBuffer

\* pub.Publish(ctx, ev) by the owner.
DrainPublish == npub < MaxDrainPub /\ BufPublish

\* pub.Dispatch(ctx)
DrainDispatch == ndispatch < MaxDrains /\ Dispatch

\* One iteration of Dispatch's loop.  A drain in which the Func publishes
\* its own Type is followed for MaxForwarded forwardings.
DrainStep ==
    /\ regs = LoopRegs => Len(forwarded) < MaxForwarded
    /\ DispatchStep

NextDrain ==
    \/ DrainPublish
    \/ DrainDispatch
    \/ DrainStep
    \/ DispatchReturn

\* Dispatch is sequential code and the handlers it calls return: once
\* called, its loop goes on and it returns when the loop is left.
FairDrain == WF_vars(DrainStep) /\ WF_vars(DispatchReturn)

SpecDrain == InitDrain /\ [][NextDrain]_vars /\ FairDrain

\* ------------------------------------------------------ nested Mappings

\* The inner Mapping of TestMappingNested, with the user subscribers at
\* hand: Created -> sub1, Created -> sub2, Updated -> sub2, Deleted -> sub1.
InnerRegs ==
    << [typ |-> "Created", sub |-> User("sub1")],
       [typ |-> "Created", sub |-> User("sub2")],
       [typ |-> "Updated", sub |-> User("sub2")],
       [typ |-> "Deleted", sub |-> User("sub1")] >>

\* The inner Mapping as a subscriber.
Inner == MappingValue(RegisterAll(InnerRegs).maps)

\* The inner Mapping is built; the outer one is new.
InitNested ==
    /\ maps = NewMapping
    /\ heap = RegisterAll(InnerRegs).heap
    /\ phase = "register"
    /\ regs = <<>>
    /\ published = <<>>
    /\ calls = <<>>
    /\ handed = <<>>
    /\ lastErr = Nil
    /\ lastFail = {}
    /\ InitNoAsync
    /\ InitNoBuffer

\* pub.On(typ, sub) on the outer Mapping, with the inner Mapping or with a
\* user subscriber.
NestedOn == OnCall(MaxNestRegs, {Inner} \cup {User(id) : id \in Users})

NextNested == NestedOn \/ StartPublishing \/ Publish

SpecNested == InitNested /\ [][NextNested]_vars

\* ---------------------------------------------------- leaf subscribers

\* Each program uses one component: a Mapping with Funcs and user
\* subscribers registered, or a Limited called by several goroutines.
LeafMapping == ncalls = 0
LeafLimited == regs = <<>> /\ phase = "register"

\* A new Mapping, and a Limited of capacity FairMax around sub1 that
\* FairCallers goroutines call.
InitLeaf ==
    /\ maps = NewMapping
    /\ heap = <<>>
    /\ phase = "register"
    /\ regs = <<>>
    /\ published = <<>>
    /\ calls = <<>>
    /\ handed = <<>>
    /\ lastErr = Nil
    /\ lastFail = {}
    /\ amembers = [i \in 1..FairCallers |-> Limited]
    /\ InitCalls
    /\ semcap = FairMax
    /\ InitNoBuffer

\* pub.On(typ, sub) with a Func or a user subscriber.
LeafOn ==
    LeafMapping /\ OnCall(MaxFuncRegs, Funcs \cup {User(id) : id \in Users})

LeafStart == LeafMapping /\ StartPublishing

LeafPublish == LeafMapping /\ Publish

\* The goroutines that call Handle on the Limited are started.
LeafCallers == LeafLimited /\ LimitedCallers

NextLeaf ==
    \/ LeafOn
    \/ LeafStart
    \/ LeafPublish
    \/ LeafCallers
    \/ \E k \in Calls, i \in Gs : LimSelect(k, i)
    \/ \E k \in Calls, i \in Gs : LimReturnCtx(k, i)
    \/ \E k \in Calls, i \in Gs : LimInvoke(k, i)
    \/ \E k \in Calls, i \in Gs : GoEnd(k, i)
    \/ \E k \in Calls, i \in Gs : LimRelease(k, i)
    \/ Cancel
    \/ \E k \in Calls, i \in Gs : GoOnce(k, i)
    \/ \E k \in Calls, i \in Gs : GoDone(k, i)
    \/ AsyncReturn

SpecLeaf == InitLeaf /\ [][NextLeaf]_vars

\* ------------------------------------------------- cancelled contexts

\* The contexts a caller hands to the package.
Ctxs == {Background, Expired}

\* Each program uses one of the components: it publishes to the Mapping of
\* BufferRegs, or it uses the Buffer around that Mapping, or it calls
\* Handle on an Async.
UsesMapping == npub = 0 /\ ndispatch = 0 /\ ncalls = 0
UsesBuffer == published = <<>> /\ ncalls = 0
UsesAsync == published = <<>> /\ npub = 0 /\ ndispatch = 0

\* The Mapping of BufferRegs with a Buffer around it, and Async{sub1, sub2}.
InitCancelled ==
    /\ maps = RegisterAll(BufferRegs).maps
    /\ heap = RegisterAll(BufferRegs).heap
    /\ phase = "publish"
    /\ regs = BufferRegs
    /\ published = <<>>
    /\ calls = <<>>
    /\ handed = <<>>
    /\ lastErr = Nil
    /\ lastFail = {}
    /\ amembers = <<AsyncMember(1), AsyncMember(2)>>
    /\ InitCalls
    /\ semcap = 0
    /\ InitNoBuffer

\* pub.Publish(ctx, ev) on the Mapping, with a context cancelled or not.
CtxPublish == UsesMapping /\ PublishCtx(Ctxs)

\* buf.Publish(ctx, ev) and buf.Handle(ctx, ev) on the Buffer.
CtxBufPublish == UsesBuffer /\ npub < MaxCtxBufPub /\ BufPublish
CtxBufHandle == UsesBuffer /\ npub < MaxCtxBufPub /\ BufHandle

\* buf.Dispatch(ctx), with a context cancelled or not.
CtxDispatch ==
    UsesBuffer /\ ndispatch < MaxCtxDispatch /\ DispatchCtx(Ctxs)

\* Async.Handle(ctx, ev), with a context cancelled or not.
CtxAsyncHandle == UsesAsync /\ AsyncHandleCtx(MaxCalls, BOOLEAN)

NextCancelled ==
    \/ CtxPublish
    \/ CtxBufPublish
    \/ CtxBufHandle
    \/ CtxDispatch
    \/ DispatchStep
    \/ DispatchReturn
    \/ CtxAsyncHandle
    \/ \E k \in Calls, i \in Gs : GoBegin(k, i)
    \/ \E k \in Calls, i \in Gs : GoEnd(k, i)
    \/ \E k \in Calls, i \in Gs : GoOnce(k, i)
    \/ \E k \in Calls, i \in Gs : GoDone(k, i)
    \/ AsyncReturn

SpecCancelled == InitCancelled /\ [][NextCancelled]_vars

\* ------------------------------------------- what the registrations imply

\* The (named) subscribers registered under typ, in registration order.
ChainOf(typ) ==
    LET Is(r) == r.typ = typ
        sel == SelectSeq(regs, Is)
    IN [i \in 1..Len(sel) |-> sel[i].sub.id]

\* The types subscriber id is registered under.
TypesOf(id) ==
    {regs[i].typ : i \in {j \in 1..Len(regs) : regs[j].sub.id = id}}

\* How many times id is registered under typ.
RegCount(id, typ) ==
    Cardinality({i \in 1..Len(regs) :
                    regs[i].typ = typ /\ regs[i].sub.id = id})

\* The events subscriber id was handed, in order.
LogOf(id) ==
    LET Is(c) == c.sub = id
        sel == SelectSeq(calls, Is)
    IN [i \in 1..Len(sel) |-> sel[i].ev]

\* The invocations one Publish of ev makes: the chain of its type, in order.
CallsFor(ev) ==
    LET ch == ChainOf(ev.typ)
    IN [i \in 1..Len(ch) |-> [sub |-> ch[i], ev |-> ev]]

\* The last event published and the chain it was routed to.
LastEv == Last(published)
LastChain == ChainOf(LastEv.typ)

\* ------------------------------------------------------------------ C1

C2_EveryMemberInOrder ==
    calls = Flatten([k \in 1..Len(published) |-> CallsFor(published[k])])

\* The first member of a chain of several failed and the last member was
\* still invoked, last.
C2_Witness ==
    /\ published # <<>>
    /\ Len(LastChain) >= 2
    /\ LastChain[1] \in lastFail
    /\ Last(calls) = [sub |-> LastChain[Len(LastChain)], ev |-> LastEv]

\* ------------------------------------------------------------------ C3

\* C3: an Ordered (a chain of two or more registrations) returns the error
\* of the failing member latest in the sequence, and nil exactly when no
\* member failed.
C3_LastErrorWins ==
    (published # <<>> /\ Len(LastChain) >= 2) =>
        LET failed == {i \in 1..Len(LastChain) : LastChain[i] \in lastFail}
        IN IF failed = {}
           THEN lastErr = Nil
           ELSE lastErr =
                   ErrOf(LastChain[CHOOSE i \in failed :
                                      \A j \in failed : j <= i])

\* S1 and S2, different subscribers registered in that order, both failed
\* and the result is S2's error.
C3_Witness ==
    /\ published # <<>>
    /\ Len(LastChain) = 2
    /\ LastChain[1] # LastChain[2]
    /\ {LastChain[1], LastChain[2]} \subseteq lastFail
    /\ lastErr = ErrOf(LastChain[2])

\* ------------------------------------------------------------------ C4

\* Where a goroutine is once its member's Handle has been called, and once
\* that Handle has returned.
Begun == {"running", "releasing", "returned", "deferred", "exit"}
Completed == {"returned", "deferred", "exit"}

\* C4: when Async.Handle has returned, every member's Handle of that call
\* has completed; and when a member's Handle of a later call has begun,
\* every member's Handle of the calls before it has completed.
C4_ForkJoinBarrier ==
    /\ \A k \in 1..Len(aret) : At(k, Completed) = Gs
    /\ \A k \in Calls, n \in Calls :
          (k < n /\ At(n, Begun) # {}) => At(k, Completed) = Gs

\* A member of the second call is running after a first call of two or more
\* members, all of which have completed.
C4_Witness ==
    /\ Len(amembers) >= 2
    /\ Len(aret) = 1
    /\ ncalls = 2
    /\ At(1, {"exit"}) = Gs
    /\ At(2, {"running"}) # {}
    /\ At(2, {"spawned"}) # {}

\* ------------------------------------------------------------------ C5

\* The members of call k whose Handle returned an error.
Failing(k) == {i \in Gs : ge[k][i] # Nil}

\* C5: Async.Handle returns nil exactly when no member failed; otherwise it
\* returns the error of one failing member, the one whose failure was
\* recorded first, and err keeps that error whatever fails later.  (A
\* call's members' results are kept until the next call starts.)
C5_OneFailureReturned ==
    /\ \A k \in 1..Len(aret) :
          k = ncalls =>
          /\ (aret[k] = Nil) <=> (Failing(k) = {})
          /\ Failing(k) # {} =>
                /\ firstDo[k] \in Failing(k)
                /\ aret[k] = ge[k][firstDo[k]]
    /\ \A k \in Calls :
          aerr[k] = IF firstDo[k] = 0 THEN Nil ELSE ge[k][firstDo[k]]

\* Two members failed with different errors and Handle returned the error
\* of the second, recorded first.
C5_Witness ==
    /\ Len(aret) >= 1
    /\ Len(amembers) >= 2
    /\ ge[1][1] # Nil
    /\ ge[1][2] # Nil
    /\ ge[1][1] # ge[1][2]
    /\ firstDo[1] = 2
    /\ aret[1] = ge[1][2]

\* ------------------------------------------------------------------ C6

\* The calls with the wrapped subscriber's Handle in progress.
InFlight == AllAt({"running"})

\* C6: at most LimitedMax invocations of the wrapped subscriber are in
\* flight, however many goroutines call Handle.
C6_AtMostMaxInFlight == Cardinality(InFlight) <= LimitedMax

\* More callers than permits: LimitedMax invocations are in flight and
\* every other caller is blocked in the select.
C6_Witness ==
    /\ Len(amembers) > LimitedMax
    /\ Cardinality(InFlight) = LimitedMax
    /\ Cardinality(AllAt({"blocked"})) = Len(amembers) - LimitedMax

\* ------------------------------------------------------------------ C7

\* The callers of call k that have invoked the wrapped subscriber, and
\* those whose Handle has returned the context's error.
Invoked(k) == {i \in Gs : invoked[k][i] > 0}
ReturnedCtxErr(k) == {i \in Gs : ge[k][i] = CtxErr}

\* C7: a caller that was waiting for a permit when the context was
\* cancelled takes no permit and never invokes the wrapped subscriber, and
\* its Handle returns the context's error; a Handle that returns the
\* context's error has not invoked the wrapped subscriber.  So when all
\* LimitedMax permits are in use by running invocations and the other
\* callers are waiting as the context is cancelled, exactly LimitedMax
\* invocations have occurred when all calls have returned, and the other
\* calls have returned the context's error.
C7_CancelledWhileWaiting ==
    \A k \in Calls :
        /\ \A i \in atCancel[k].blocked :
              /\ gpc[k][i] \in {"cancelled"} \cup Completed
              /\ invoked[k][i] = 0
              /\ gpc[k][i] \in Completed => ge[k][i] = CtxErr
        /\ ReturnedCtxErr(k) \cap Invoked(k) = {}
        /\ (/\ Cardinality(atCancel[k].running) = LimitedMax
            /\ atCancel[k].running \cup atCancel[k].blocked = Gs
            /\ k <= Len(aret))
           => /\ Invoked(k) = atCancel[k].running
              /\ ReturnedCtxErr(k) = atCancel[k].blocked

\* Three or more callers: LimitedMax were running and the others waiting
\* when the context was cancelled, and the call has returned.
C7_Witness ==
    /\ Len(aret) = 1
    /\ ncalls = 1
    /\ Cardinality(atCancel[1].running) = LimitedMax
    /\ atCancel[1].blocked # {}
    /\ atCancel[1].running \cup atCancel[1].blocked = Gs
    /\ Cardinality(Invoked(1)) = LimitedMax
    /\ ReturnedCtxErr(1) = atCancel[1].blocked

\* ------------------------------------------------------------------ C8

\* C8: the permits held are exactly the calls between their acquisition
\* and their deferred release, whatever the wrapped subscriber returned (a
\* call that takes the cancellation case is never among them), at most
\* LimitedMax; and when no call is in progress no permit is held.
C8_NoPermitLeak ==
    /\ sem = Cardinality(AllAt(Holding))
    /\ sem <= LimitedMax
    /\ (apc = "idle" /\ \A k \in Calls : k <= ncalls => At(k, {"exit"}) = Gs)
          => sem = 0

\* All calls have returned, one after the wrapped subscriber failed, one
\* after it succeeded and one with the context's error, and no permit is
\* held.
C8_Witness ==
    /\ Len(aret) = 1
    /\ ncalls = 1
    /\ apc = "idle"
    /\ sem = 0
    /\ \E i, j, l \in Gs :
          /\ ge[1][i] = ErrOf(LimitedSubscriber)
          /\ ge[1][j] = Nil /\ invoked[1][j] = 1
          /\ ge[1][l] = CtxErr

\* ------------------------------------------------------------------ C9

\* A step in which the owner's Publish or Handle call on the Buffer is made.
OwnerPublishes == npub' = npub + 1

\* C9: Buffer.Publish and Buffer.Handle return nil and do nothing but
\* append the event to the queue's tail: no subscriber is invoked and
\* nothing is forwarded by the call; so before the first Dispatch nothing
\* has been forwarded, no subscriber has been invoked and every event
\* published is in the queue, in order.
C9_PublishOnlyBuffers ==
    /\ [](/\ pret = Nil
          /\ ndispatch = 0 =>
                /\ calls = <<>>
                /\ forwarded = <<>>
                /\ events = enqueued
                /\ Len(events) = npub)
    /\ [][OwnerPublishes =>
             /\ \E typ \in Types :
                   events' = Append(events, [typ |-> typ, id |-> npub'])
             /\ calls' = calls
             /\ forwarded' = forwarded]_vars

\* Events of the Types that have subscribers downstream were published, no
\* Dispatch was called, and no subscriber has seen anything.
C9_Witness ==
    /\ ndispatch = 0
    /\ Len(events) >= 2
    /\ events[1].typ = "Created"
    /\ events[2].typ = "Updated"
    /\ calls = <<>>
    /\ pret = Nil

\* ----------------------------------------------------------------- C10

\* C10: the events are forwarded in the order in which they were appended
\* to the queue, by the owner or by a downstream handler during the drain
\* (what has been forwarded, followed by the queue, is what was appended);
\* and when Dispatch returns the queue is empty and every event appended,
\* also during that Dispatch, has been forwarded.
C10_FifoDrain ==
    /\ enqueued = forwarded \o events
    /\ bop = "dispatched" => (events = <<>> /\ forwarded = enqueued)

\* One Dispatch forwarded an Updated event, then a second event queued
\* behind it, and then the event that the Updated event's handler published
\* during the drain.
C10_Witness ==
    /\ ndispatch = 1
    /\ bop = "dispatched"
    /\ npub = 2
    /\ Len(forwarded) = 3
    /\ forwarded[1].typ = "Updated"
    /\ forwarded[2] = [typ |-> "Created", id |-> 2]
    /\ forwarded[3] = Derived

\* ----------------------------------------------------------------- C11

\* The failure latest in a sequence of results, nil when there is none.
LastFailure(es) ==
    LET failed == {i \in 1..Len(es) : es[i] # Nil}
    IN IF failed = {} THEN Nil
       ELSE es[CHOOSE i \in failed : \A j \in failed : j <= i]

\* What the forwardings of the Dispatch in progress, or of the last one,
\* returned.
ThisDrain == ferrs[ndispatch]

\* C11: Dispatch goes on forwarding after a failure: err is at every moment
\* the failure of the latest failed forwarding of this Dispatch, and when
\* Dispatch returns every event appended to the queue has been forwarded
\* and the value returned is the last failure, or nil if nothing failed.
C11_DrainPastFailures ==
    /\ bop = "dispatching" => derr = LastFailure(ThisDrain)
    /\ bop = "dispatched" =>
          /\ forwarded = enqueued
          /\ Len(Flatten(ferrs)) = Len(enqueued)
          /\ dret = LastFailure(ThisDrain)

\* One Dispatch forwarded three events: the first two failed with
\* different errors, the third succeeded, and Dispatch returned the error
\* of the second.
C11_Witness ==
    /\ bop = "dispatched"
    /\ ndispatch = 1
    /\ Len(ThisDrain) = 3
    /\ ThisDrain[1] # Nil
    /\ ThisDrain[2] # Nil
    /\ ThisDrain[1] # ThisDrain[2]
    /\ ThisDrain[3] = Nil
    /\ dret = ThisDrain[2]

\* ----------------------------------------------------------------- C15

\* C15: whenever a Dispatch has returned, with nil or with an error, the
\* queue is empty, and what it returned is decided by the forwardings of
\* that Dispatch alone: nil exactly when none of them failed (so nil when
\* the queue was empty and nothing was forwarded), and otherwise one of
\* their errors, whatever the Dispatch calls before it returned; and the
\* events it forwarded are the ones appended since the Dispatch before it
\* returned.
C15_ReusableAfterDispatch ==
    bop = "dispatched" =>
        /\ events = <<>>
        /\ (dret = Nil) <=> (\A i \in 1..Len(ThisDrain) : ThisDrain[i] = Nil)
        /\ dret # Nil => \E i \in 1..Len(ThisDrain) : dret = ThisDrain[i]
        /\ ThisDrain = <<>> => dret = Nil
        /\ SubSeq(forwarded, Len(forwarded) - Len(ThisDrain) + 1,
                  Len(forwarded))
              = SubSeq(enqueued, Len(enqueued) - Len(ThisDrain) + 1,
                       Len(enqueued))

\* A first Dispatch had a failure to return; events were published after
\* it, and the second Dispatch forwarded them and returned nil.
C15_Witness ==
    /\ bop = "dispatched"
    /\ ndispatch = 2
    /\ LastFailure(ferrs[1]) # Nil
    /\ ferrs[2] # <<>>
    /\ dret = Nil
    /\ events = <<>>

\* ----------------------------------------------------------------- C12

\* A step that publishes an event of a Type no On call has named.
PublishesUnregistered ==
    /\ Len(published') = Len(published) + 1
    /\ ChainOf(Last(published').typ) = <<>>

\* C12: Publish of an event whose Type has no registration, on an empty
\* Mapping too, returns nil, invokes no subscriber and leaves the Mapping
\* as it was.
C12_UnregisteredIsNoOp ==
    /\ [](published # <<>> /\ ChainOf(LastEv.typ) = <<>> => lastErr = Nil)
    /\ [][PublishesUnregistered =>
             /\ lastErr' = Nil
             /\ calls' = calls
             /\ maps' = maps
             /\ heap' = heap]_vars

\* After an event whose subscriber failed, an event of a Type without
\* registration was published: nil was returned and nothing more invoked.
C12_Witness ==
    /\ Len(published) = 2
    /\ ChainOf(published[1].typ) # <<>>
    /\ ChainOf(published[2].typ) = <<>>
    /\ calls # <<>>
    /\ \A i \in 1..Len(calls) : calls[i].ev = published[1]
    /\ lastErr = Nil

\* ----------------------------------------------------------------- C16

\* The functions of the Funcs registered under typ, in registration order
\* (Nil for Discard and Func(nil)), and those of them that are functions.
FnChain(typ) ==
    LET Is(r) == r.typ = typ
        sel == SelectSeq(regs, Is)
    IN [i \in 1..Len(sel) |-> sel[i].sub.fn]
RealFns(typ) ==
    LET Is(fn) == fn # Nil
    IN SelectSeq(FnChain(typ), Is)

\* C16: handling an event with Discard or Func(nil) has no effect and
\* returns nil, and a Func around a function calls it exactly once with the
\* event and returns what it returns: the calls made are, event by event,
\* one call of each function registered under the event's Type, none for a
\* nil Func; a Type with nil Funcs only yields nil, and a Type with one
\* Func around a function yields that function's result.
C16_NilFuncIsNoOp ==
    /\ calls =
          Flatten([k \in 1..Len(published) |->
                      [i \in 1..Len(RealFns(published[k].typ)) |->
                          [sub |-> RealFns(published[k].typ)[i],
                           ev |-> published[k]]]])
    /\ published # <<>> =>
          LET ch == FnChain(LastEv.typ)
          IN /\ (ch # <<>> /\ RealFns(LastEv.typ) = <<>>) => lastErr = Nil
             /\ (Len(ch) = 1 /\ ch[1] # Nil) =>
                   lastErr = IF ch[1] \in lastFail THEN ErrOf(ch[1]) ELSE Nil

\* An event was handled by Discard alone, then an event of another Type by
\* a Func whose function failed: one call was made, and its error returned.
C16_Witness ==
    /\ Len(published) = 2
    /\ FnChain(published[1].typ) = <<Nil>>
    /\ Len(FnChain(published[2].typ)) = 1
    /\ RealFns(published[2].typ) # <<>>
    /\ Len(calls) = 1
    /\ calls[1].ev = published[2]
    /\ lastErr = ErrOf(calls[1].sub)

\* ----------------------------------------------------------------- C17

\* C17: with Ordered{} the only subscriber registered and Async{} the
\* composite handled, no subscriber is ever invoked, every Publish and
\* every Async.Handle returns nil, and wg.Wait() never blocks: whenever the
\* caller of Async.Handle is at wg.Wait() the counter is zero.
C17_EmptyCompositeIsNoOp ==
    /\ calls = <<>>
    /\ lastErr = Nil
    /\ \A k \in 1..Len(aret) : aret[k] = Nil
    /\ apc = "wait" => WgWait(ncalls)

\* An event of a Type with Ordered{} registered was published, and Handle
\* on Async{} has returned.
C17_Witness ==
    /\ published # <<>>
    /\ maps[LastEv.typ] # None
    /\ Members(heap, maps[LastEv.typ]) = <<>>
    /\ amembers = <<>>
    /\ Len(aret) >= 1
    /\ apc = "idle"

\* ----------------------------------------------------------------- C13

\* The user subscribers a registered subscriber stands for: itself, or for
\* the caller's Ordered its members.
MembersOf(sub) ==
    IF sub.kind = "ordered"
    THEN [i \in 1..sub.len |-> SpareArray[i].id]
    ELSE <<sub.id>>

\* The user subscribers registered under typ, in registration order, once
\* per registration.
RegisteredUnder(typ) ==
    LET Is(r) == r.typ = typ
        sel == SelectSeq(regs, Is)
    IN Flatten([i \in 1..Len(sel) |-> MembersOf(sel[i].sub)])

\* C13: after any On calls every Type named by one has one subscriber in
\* the Mapping, and Publish invokes the subscribers registered under the
\* event's Type in registration order, once per registration, also when
\* the first subscriber registered under the Type is an Ordered, which
\* the later registrations extend.
C13_FoldedInRegistrationOrder ==
    /\ \A typ \in Types : (maps[typ] # None) <=> (RegisteredUnder(typ) # <<>>)
    /\ calls =
          Flatten([k \in 1..Len(published) |->
                      [i \in 1..Len(RegisteredUnder(published[k].typ)) |->
                          [sub |-> RegisteredUnder(published[k].typ)[i],
                           ev |-> published[k]]]])

\* ----------------------------------------------------------------- C14

\* The subscribers the inner Mapping has under typ, in registration order.
InnerChain(typ) ==
    LET Is(r) == r.typ = typ
        sel == SelectSeq(InnerRegs, Is)
    IN [i \in 1..Len(sel) |-> sel[i].sub.id]

\* The user subscribers an event of Type typ is to reach through the outer
\* Mapping: those registered under typ, and where the inner Mapping is
\* registered under typ, those the inner Mapping has under typ.
ReachedBy(typ) ==
    LET Is(r) == r.typ = typ
        sel == SelectSeq(regs, Is)
    IN Flatten([i \in 1..Len(sel) |->
                   IF sel[i].sub.kind = "mapping" THEN InnerChain(typ)
                   ELSE <<sel[i].sub.id>>])

\* What Publish on the inner Mapping returns for an event of Type typ when
\* the subscribers in F fail.
InnerResult(typ, F) ==
    LET ch == InnerChain(typ)
    IN IF Len(ch) = 1
       THEN (IF ch[1] \in F THEN ErrOf(ch[1]) ELSE Nil)
       ELSE LastFailure([i \in 1..Len(ch) |->
                           IF ch[i] \in F THEN ErrOf(ch[i]) ELSE Nil])

\* C14: an inner Mapping registered under a Type of an outer Mapping is
\* handed exactly the outer events of that Type and routes them as its
\* Publish does: the invocations are, event by event, those of the
\* subscribers the outer registrations under the event's Type reach, the
\* inner Mapping standing for its own subscribers under that Type and for
\* no other; and where the inner Mapping is the only registration under
\* the Type, the outer Publish returns what the inner Publish returns.
C14_NestedRouting ==
    /\ calls =
          Flatten([k \in 1..Len(published) |->
                      [i \in 1..Len(ReachedBy(published[k].typ)) |->
                          [sub |-> ReachedBy(published[k].typ)[i],
                           ev |-> published[k]]]])
    /\ (published # <<>> /\ maps[LastEv.typ] = Inner) =>
          lastErr = InnerResult(LastEv.typ, lastFail)

\* The inner Mapping is registered under Created only.  A Created event
\* reached the inner subscribers under Created, the second of which
\* failed, and an Updated event reached nobody, though the inner Mapping
\* has a subscriber under Updated.
C14_Witness ==
    /\ Len(published) = 2
    /\ published[1].typ = "Updated"
    /\ published[2].typ = "Created"
    /\ maps["Created"] = Inner
    /\ maps["Updated"] = None
    /\ calls = << [sub |-> "sub1", ev |-> published[2]],
                  [sub |-> "sub2", ev |-> published[2]] >>
    /\ lastErr = ErrOf("sub2")

\* ----------------------------------------------------------------- C18

\* How often the subscriber id occurs in the composite, and how often it
\* was invoked in call k.
Occurrences(id) == Cardinality({i \in Gs : amembers[i].id = id})
RECURSIVE Sum(_, _)
Sum(f, S) ==
    IF S = {} THEN 0
    ELSE LET x == CHOOSE y \in S : TRUE IN f[x] + Sum(f, S \ {x})
Invocations(k, id) == Sum(invoked[k], {i \in Gs : amembers[i].id = id})

\* C18: in a call each member is invoked at most once, by its own
\* goroutine, and when Async.Handle returns every member has been invoked
\* exactly once and has completed, whichever members failed: a subscriber
\* is invoked as often as it occurs in the composite.  (A call's record is
\* kept until the next call starts.)
C18_EveryMemberOncePerCall ==
    /\ \A k \in Calls, i \in Gs :
          k = ncalls =>
              invoked[k][i] = IF gpc[k][i] \in Begun THEN 1 ELSE 0
    /\ \A k \in 1..Len(aret) :
          k = ncalls =>
              /\ \A i \in Gs : invoked[k][i] = 1 /\ gpc[k][i] \in Completed
              /\ \A id \in Users : Invocations(k, id) = Occurrences(id)

\* Handle has returned the error of the first member; the subscriber
\* listed twice was invoked twice, the other one once.
C18_Witness ==
    /\ Len(amembers) = 3
    /\ ncalls = 1
    /\ Len(aret) = 1
    /\ aret[1] = ge[1][1]
    /\ ge[1][1] # Nil
    /\ ge[1][2] = Nil
    /\ Invocations(1, "sub1") = 2
    /\ Invocations(1, "sub2") = 1

\* ----------------------------------------------------------------- C19

\* Call k has returned with every caller having invoked the wrapped
\* subscriber once and returned its result.
AllServed(k) ==
    /\ Len(aret) >= k
    /\ \A i \in Gs :
          /\ invoked[k][i] = 1
          /\ gpc[k][i] \in Completed
          /\ ge[k][i] # CtxErr

\* C19: with more callers than permits, once the callers of a call are
\* started then, unless the call's context is cancelled, every caller gets
\* a permit, invokes the wrapped subscriber once and returns, and the
\* Async.Handle that started them returns; no caller invokes it twice.
C19_EveryCallerServed ==
    /\ [](\A k \in Calls, i \in Gs : invoked[k][i] <= 1)
    /\ \A k \in Calls :
          (ncalls = k /\ apc = "wait") ~> (ctxDone[k] \/ AllServed(k))

\* More callers than permits, no cancellation: the call has returned and
\* every caller has invoked the wrapped subscriber.
C19_Witness ==
    /\ Len(amembers) > semcap
    /\ ncalls = 1
    /\ ~ctxDone[1]
    /\ AllServed(1)
    /\ apc = "idle"
    /\ sem = 0

\* ----------------------------------------------------------------- C20

\* C20: a caller whose context was cancelled before it called Handle never
\* invokes the wrapped subscriber, and its Handle returns the context's
\* error, whether or not a permit was free.
C20_CancelledBeforeHandle ==
    \A k \in Calls :
        \A i \in atCancel[k].spawned :
            /\ invoked[k][i] = 0
            /\ gpc[k][i] \in Completed => ge[k][i] = CtxErr

\* ----------------------------------------------------------------- C21

\* The goroutines of call k whose member has failed and that are about to
\* reach once.Do.
AboutToRecord(k) == {i \in Gs : gpc[k][i] = "returned" /\ ge[k][i] # Nil}

\* C21: which failure Async.Handle returns is decided by the race to
\* once.Do and not by the members' positions: a member that fails returns
\* its own error, and as long as no failure has been recorded every failed
\* member about to reach once.Do can be the one whose error is recorded,
\* which is then the error Handle returns.
C21_AnyFailureMayWin ==
    /\ \A k \in Calls, i \in Gs :
          ge[k][i] # Nil => ge[k][i] = ErrOf(UserOf(i))
    /\ \A k \in Calls :
          ~once[k] =>
             \A i \in AboutToRecord(k) :
                 ENABLED (/\ GoOnce(k, i)
                          /\ aerr'[k] = ErrOf(UserOf(i))
                          /\ firstDo'[k] = i)
    /\ \A k \in 1..Len(aret) :
          (k = ncalls /\ firstDo[k] # 0) =>
              aret[k] = ErrOf(UserOf(firstDo[k]))

\* Two calls were made on an Async of two members with different errors.
\* The first call returned the error of the second member; in the second
\* call both members failed and Handle returned the error of the first.
C21_Witness ==
    /\ Len(amembers) = 2
    /\ Len(aret) = 2
    /\ aret[1] = ErrOf(UserOf(2))
    /\ Failing(2) = {1, 2}
    /\ aret[2] = ErrOf(UserOf(1))
    /\ aret[1] # aret[2]

\* ----------------------------------------------------------------- C22

\* How many times the event e is in the sequence s.
Times(s, e) == Cardinality({i \in 1..Len(s) : s[i] = e})

\* The events appended to the queue so far.
Enqueued == {enqueued[i] : i \in 1..Len(enqueued)}

\* C22: every event appended to the Buffer's queue is forwarded once: it is
\* in the queue or has been forwarded, never both and never twice, whether
\* its forwarding failed or not (every forwarding has one result, and the
\* events the owner published, each different from all others, are
\* forwarded at most once); and when a Dispatch has returned every event
\* appended has been forwarded as many times as it was appended.
C22_ForwardedExactlyOnce ==
    /\ \A e \in Enqueued :
          Times(forwarded, e) + Times(events, e) = Times(enqueued, e)
    /\ \A i \in 1..Len(forwarded) :
          Times(forwarded, forwarded[i]) <= Times(enqueued, forwarded[i])
    /\ \A e \in Enqueued : e.id # 0 => Times(forwarded, e) <= 1
    /\ Len(Flatten(ferrs)) = Len(forwarded)
    /\ bop = "dispatched" =>
          \A e \in Enqueued : Times(forwarded, e) = Times(enqueued, e)

\* The first Dispatch forwarded an event and the forwarding failed; the
\* owner then published another event and the second Dispatch, which has
\* returned, forwarded that one alone.
C22_Witness ==
    /\ ndispatch = 2
    /\ bop = "dispatched"
    /\ Len(ferrs[1]) = 1
    /\ ferrs[1][1] # Nil
    /\ Len(ferrs[2]) = 1
    /\ Len(forwarded) = 2
    /\ forwarded[1] # forwarded[2]

\* ----------------------------------------------------------------- C23

\* The events handed to Mapping.Publish, by the program or by Dispatch.
Sent == published \o forwarded

\* The errors the members of the chain of typ can return.
ErrorsOf(typ) == {ErrOf(ChainOf(typ)[i]) : i \in 1..Len(ChainOf(typ))}

\* C23: Mapping.Publish, Ordered.Handle, Buffer.Dispatch and Async.Handle
\* do not look at the context: given any context, one cancelled before the
\* call included, they invoke every subscriber of the chain (every member),
\* each is handed the context the call was given, and what is returned is
\* what the subscribers returned (the last failure of a chain and of a
\* drain, the failure recorded first of an Async), never the context's
\* error.
C23_ContextOnlyPassedOn ==
    /\ calls = Flatten([j \in 1..Len(Sent) |-> CallsFor(Sent[j])])
    /\ Len(handed) = Len(Sent)
    /\ \A j \in 1..Len(handed) :
          /\ Len(handed[j].got) = Len(ChainOf(Sent[j].typ))
          /\ \A n \in 1..Len(handed[j].got) : handed[j].got[n] = handed[j].ctx
    /\ published # <<>> =>
          LET failed == {i \in 1..Len(LastChain) : LastChain[i] \in lastFail}
          IN lastErr = IF failed = {} THEN Nil
                       ELSE ErrOf(LastChain[CHOOSE i \in failed :
                                               \A j \in failed : j <= i])
    /\ \A j \in 1..Len(forwarded) :
          Flatten(ferrs)[j] \in {Nil} \cup ErrorsOf(forwarded[j].typ)
    /\ bop = "dispatched" => dret = LastFailure(ThisDrain)
    /\ \A k \in 1..Len(aret) :
          k = ncalls =>
             /\ \A i \in Gs :
                   /\ invoked[k][i] = 1
                   /\ gctx[k][i] = CtxOf(k)
                   /\ ge[k][i] \in {Nil, ErrOf(UserOf(i))}
             /\ aret[k] = IF firstDo[k] = 0 THEN Nil ELSE ge[k][firstDo[k]]

\* Dispatch was given a cancelled context and has returned: it forwarded a
\* Created event, both members of the chain of Created were invoked with
\* that context, the second failed, and Dispatch returned its error.
C23_Witness ==
    /\ bop = "dispatched"
    /\ dctx = Expired
    /\ Len(forwarded) = 1
    /\ forwarded[1].typ = "Created"
    /\ handed = << [ctx |-> Expired, got |-> <<Expired, Expired>>] >>
    /\ Len(calls) = 2
    /\ ferrs[1] = <<ErrOf("sub2")>>
    /\ dret = ErrOf("sub2")

\* ----------------------------------------------------------------- C24

\* The registrations under typ, in order.
RegsUnder(typ) ==
    LET Is(r) == r.typ = typ
    IN SelectSeq(regs, Is)

\* The name under which a leaf subscriber's invocations are recorded: a
\* Func's function or a user subscriber.
LeafName(sub) == IF sub.kind = "func" THEN sub.fn ELSE sub.id

\* C24: a leaf's result is returned as it is.  Publish on a Type with one
\* registration, a user subscriber or a Func around a function, invokes it
\* once and returns its error if it failed and nil if not; and a Limited
\* whose caller got a permit returns, after the release, the value the
\* wrapped subscriber returned, which is nil or that subscriber's error.
C24_LeafResultUnchanged ==
    /\ [](published # <<>> =>
             LET rs == RegsUnder(LastEv.typ)
             IN (Len(rs) = 1 /\ rs[1].sub # Discard) =>
                   /\ Last(calls) = [sub |-> LeafName(rs[1].sub), ev |-> LastEv]
                   /\ lastErr = IF LeafName(rs[1].sub) \in lastFail
                                THEN ErrOf(LeafName(rs[1].sub))
                                ELSE Nil)
    /\ [](\A k \in Calls, i \in Gs :
             (invoked[k][i] = 1 /\ gpc[k][i] \in Completed) =>
                 ge[k][i] \in {Nil, ErrOf(LimitedSubscriber)})
    /\ [][\A k \in Calls, i \in Gs :
             (gpc[k][i] = "releasing" /\ gpc'[k][i] = "returned") =>
                 ge'[k][i] = ge[k][i]]_vars

\* Two callers got a permit of the Limited, one after the other; the
\* wrapped subscriber failed for the first and succeeded for the second,
\* and their Handle calls returned its error and nil.
C24_Witness ==
    /\ ncalls = 1
    /\ invoked[1][1] = 1
    /\ invoked[1][2] = 1
    /\ gpc[1][1] \in Completed
    /\ gpc[1][2] \in Completed
    /\ ge[1][1] = ErrOf(LimitedSubscriber)
    /\ ge[1][2] = Nil

\* ----------------------------------------------------------------- C25

\* The invocations that publishing an event of Type typ would make now.
WouldInvoke(typ) ==
    LET r == MappingPublish(Background, [typ |-> typ, id |-> 0], {},
                            [State EXCEPT !.calls = <<>>])
    IN [i \in 1..Len(r.st.calls) |-> r.st.calls[i].sub]

\* C25: an On call changes the chain of its own Type only: for every other
\* Type, publishing an event of it invokes the same subscribers in the same
\* order after the call as before, also when the caller's Ordered with
\* spare capacity is registered under several Types that further On calls
\* extend.
C25_OnLeavesOtherTypesAlone ==
    [][regs' # regs =>
          \A typ \in Types :
              typ # Last(regs').typ => WouldInvoke(typ)' = WouldInvoke(typ)]_vars

\* ----------------------------------------------------------------- C26

\* A step that forwards an event whose handler publishes into the Buffer.
ForwardsAndRepublishes ==
    /\ Len(forwarded') = Len(forwarded) + 1
    /\ Len(enqueued') > Len(enqueued)

\* C26: with handlers that publish finitely many events into the Buffer
\* during the drain (those of TestBuffer: a forwarded Updated event
\* publishes one Deleted event, whose handler publishes nothing) every
\* Dispatch returns.  Dispatch returns only when the queue is empty, and a
\* forwarding whose handler publishes leaves the queue non-empty: with a
\* handler that publishes on every forwarding the queue never empties and
\* Dispatch does not return, so a Dispatch that has returned ended on a
\* forwarding whose handler published nothing.
C26_DrainEndsIffRepublishingEnds ==
    /\ (regs = BufferRegs /\ bop = "dispatching") ~> (bop = "dispatched")
    /\ [][(bop = "dispatching" /\ bop' = "dispatched") => events = <<>>]_vars
    /\ [][ForwardsAndRepublishes => events' # <<>>]_vars
    /\ []((regs = LoopRegs /\ bop = "dispatched" /\ ThisDrain # <<>>) =>
             \/ Last(forwarded).typ # "Deleted"
             \/ Last(ThisDrain) # Nil)

\* The Func registered under the Type it publishes has been handed
\* MaxForwarded events in one Dispatch, one after the other, each forwarding
\* publishing the next: none failed, the queue is not empty and Dispatch
\* has not returned.
C26_Witness ==
    /\ regs = LoopRegs
    /\ bop = "dispatching"
    /\ npub = 1
    /\ Len(forwarded) = MaxForwarded
    /\ \A j \in 1..MaxForwarded : forwarded[j].typ = "Deleted"
    /\ \A j \in 1..Len(ThisDrain) : ThisDrain[j] = Nil
    /\ events = <<Derived>>

====
